---- MODULE Spec2Model ----
(***************************************************************************)
(* Missing-transcript detection (script.py).                               *)
(*                                                                         *)
(* Units.  Timestamps that the coverage code works on (VAD segments, and   *)
(* word timestamps after round(x, 1)) are integers counting tenths of a    *)
(* second.  Word timestamps as delivered by the transcription service are  *)
(* integers counting sixteenths of a second: these are exactly             *)
(* representable as binary floats, so round(x, 1) on them is the exact     *)
(* round-half-to-even that Round1 computes.  Thresholds are integers       *)
(* counting hundredths (0.6 is 60).  coverage_ratio is the exact fraction  *)
(* <<covered_duration, vad_duration>>; float rounding error of the sums    *)
(* and of the quotient is not modelled.                                    *)
(***************************************************************************)
EXTENDS Integers, Sequences, FiniteSets, TLC

VARIABLES
    pc,                   \* position in main / the function being executed
    exc,                  \* exception that left the invocation, or "none"
    stdout,               \* lines printed so far
    COVERAGE_THRESHOLD,   \* arguments of main
    MIN_VAD_DURATION,
    SIGNIFICANCE_FACTOR,
    silero_timestamps,    \* main: result of silero_vad; vad_segments in the callee
    transcript,           \* main: the response returned by deepgram_words
    all_words,            \* main: result of build_master_transcript; master_words in the callee
    vad_idx,              \* find_missing_vad_segments: 1-based index of the next vad
    vs, ve, vad_duration, \* find_missing_vad_segments: locals of the loop body
    covered_duration,
    coverage_ratio,
    missing_segments,     \* the callee's list, then main's variable of the same name
    result,               \* main: the verdict
    filtered_segments     \* main: the kept segments

vars == <<pc, exc, stdout, COVERAGE_THRESHOLD, MIN_VAD_DURATION, SIGNIFICANCE_FACTOR,
          silero_timestamps, transcript, all_words, vad_idx, vs, ve, vad_duration,
          covered_duration, coverage_ratio, missing_segments, result,
          filtered_segments>>

params == <<COVERAGE_THRESHOLD, MIN_VAD_DURATION, SIGNIFICANCE_FACTOR>>
loopLocals == <<vad_idx, vs, ve, vad_duration, covered_duration, coverage_ratio>>

----------------------------------------------------------------------------
(* Bounds of the model. *)

MaxT == 2          \* largest timestamp of a function-level input, in tenths
MaxVad == 2        \* most speech intervals in one call
MaxWords == 2      \* most words in one call
MaxRaw == 4        \* largest raw word timestamp, in sixteenths
MaxChannels == 3   \* most channels in a response
MainVad == 1       \* most speech intervals in a run of main
MainWords == 1     \* most words in a response in a run of main

----------------------------------------------------------------------------
(* Input domains. *)

Thresholds == {0, 50, 60, 100}
MinDurations == {0, 2}
SignificanceFactors == {1, 2}

Intervals(n) == {iv \in [start : 0..n, end : 0..n] : iv.start <= iv.end}

SeqsUpTo(S, n) == UNION {[1..k -> S] : k \in 0..n}

\* get_speech_timestamps reports the speech segments in the order they occur in
\* the audio, none starting before the previous one has ended.
Chronological(segments) ==
    \A k \in 1..(Len(segments) - 1) : segments[k].end <= segments[k + 1].start

VadSegments(n) == {segments \in SeqsUpTo(Intervals(MaxT), n) : Chronological(segments)}

\* A word as the service reports it: it ends after it starts.
RawWords == {w \in Intervals(MaxRaw) : w.start < w.end}

\* The ways of cutting the word list flat into nch consecutive channels.
RECURSIVE Splits(_, _)
Splits(flat, nch) ==
    IF nch = 1 THEN {<<flat>>}
    ELSE UNION {{<<SubSeq(flat, 1, k)>> \o rest :
                    rest \in Splits(SubSeq(flat, k + 1, Len(flat)), nch - 1)} :
                k \in 0..Len(flat)}

\* A word's text is its place in the response: <<channel (0-based), position>>.
Tagged(channels) ==
    [c \in 1..Len(channels) |->
        [k \in 1..Len(channels[c]) |->
            [word |-> <<c - 1, k>>, start |-> channels[c][k].start,
             end |-> channels[c][k].end]]]

\* The responses of the service that hold the words of flat in nch channels.
Responses(flat, nch) == {Tagged(channels) : channels \in Splits(flat, nch)}

\* build_master_transcript hands the words over sorted by their rounded start; a
\* rounded word may end where it starts.
SortedByStart(words) ==
    \A k \in 1..(Len(words) - 1) : words[k].start <= words[k + 1].start

AnalyzeVadSegments == VadSegments(MaxVad)
AnalyzeWords == {words \in SeqsUpTo(Intervals(MaxT), MaxWords) : SortedByStart(words)}
MergeWords == SeqsUpTo(RawWords, MaxWords)
MainVadSegments == VadSegments(MainVad)
MainWordLists == SeqsUpTo(RawWords, MainWords)

----------------------------------------------------------------------------
(* Pure helpers. *)

Max(a, b) == IF a >= b THEN a ELSE b
Min(a, b) == IF a <= b THEN a ELSE b

\* round(x, 1) of x sixteenths of a second, in tenths: round half to even.
Round1(x) ==
    LET q == (10 * x) \div 16
        r == (10 * x) % 16
    IN  IF 2 * r < 16 THEN q
        ELSE IF 2 * r > 16 THEN q + 1
        ELSE IF q % 2 = 0 THEN q ELSE q + 1

RoundWord(w) == [word |-> w.word, start |-> Round1(w.start), end |-> Round1(w.end)]

RoundAll(words) == [k \in 1..Len(words) |-> RoundWord(words[k])]

\* Mutant of Insert: w goes before the elements whose key equals its own.
Insert_before(sorted, w) ==
    LET p == Cardinality({k \in 1..Len(sorted) : sorted[k].start < w.start})
    IN  SubSeq(sorted, 1, p) \o <<w>> \o SubSeq(sorted, p + 1, Len(sorted))

\* One step of list.sort (binary insertion, stable): w goes after every element
\* whose key is not greater than its own.
Insert(sorted, w) ==
    LET p == Cardinality({k \in 1..Len(sorted) : sorted[k].start <= w.start})
    IN  SubSeq(sorted, 1, p) \o <<w>> \o SubSeq(sorted, p + 1, Len(sorted))

RECURSIVE SortByStart(_, _)
SortByStart(words, n) ==
    IF n = 0 THEN <<>> ELSE Insert(SortByStart(words, n - 1), words[n])

\* Mutant of Overlap: the "overlap_end > overlap_start" test is missing.
Overlap_unguarded(s, e, word) == Min(e, word.end) - Max(s, word.start)

\* Mutant of Overlap: an overlapping word counts with its whole length.
Overlap_unclipped(s, e, word) ==
    IF Min(e, word.end) > Max(s, word.start) THEN word.end - word.start ELSE 0

Overlap(s, e, word) ==
    LET overlap_start == Max(s, word.start)
        overlap_end == Min(e, word.end)
    IN  IF overlap_end > overlap_start THEN overlap_end - overlap_start ELSE 0

\* Mutant of CoveredDuration: the sum is clamped to the length of the interval.
RECURSIVE CoveredDuration_clamped(_, _, _, _)
CoveredDuration_clamped(s, e, words, n) ==
    IF n = 0 THEN 0
    ELSE Min(e - s, CoveredDuration_clamped(s, e, words, n - 1) + Overlap(s, e, words[n]))

\* covered_duration after the first n words of the list
RECURSIVE CoveredDuration(_, _, _, _)
CoveredDuration(s, e, words, n) ==
    IF n = 0 THEN 0
    ELSE CoveredDuration(s, e, words, n - 1) + Overlap(s, e, words[n])

\* Mutant of SkipVad: an interval exactly min_vad_duration long is skipped too.
SkipVad_le(duration, min_vad_duration) == duration <= min_vad_duration

SkipVad(duration, min_vad_duration) == duration < min_vad_duration

CoverageRatio(covered, duration) == <<covered, duration>>

\* Mutant of IsMissing: a ratio equal to the threshold is flagged too.
IsMissing_le(ratio, coverage_threshold) == ratio[1] * 100 <= coverage_threshold * ratio[2]

\* Mutant of IsMissing: the comparison is turned around.
IsMissing_gt(ratio, coverage_threshold) == ratio[1] * 100 > coverage_threshold * ratio[2]

IsMissing(ratio, coverage_threshold) == ratio[1] * 100 < coverage_threshold * ratio[2]

CoverageResult(s, e, duration, covered, ratio) ==
    [vad_start |-> s, vad_end |-> e, vad_duration |-> duration,
     covered_duration |-> covered, coverage_ratio |-> ratio]

\* Mutant of Significant: the uncovered part is measured, not the whole interval.
Significant_uncovered(segment, significance_factor) ==
    segment.vad_duration - segment.covered_duration > significance_factor

Significant(segment, significance_factor) ==
    segment.vad_end - segment.vad_start > significance_factor

RECURSIVE FilterSegments(_, _, _)
FilterSegments(segments, significance_factor, n) ==
    IF n = 0 THEN <<>>
    ELSE LET kept == FilterSegments(segments, significance_factor, n - 1)
         IN  IF Significant(segments[n], significance_factor)
             THEN Append(kept, segments[n])
             ELSE kept

Line(kind, s, e) == [kind |-> kind, start |-> s, end |-> e]

----------------------------------------------------------------------------
(* Initial states. *)

Unassigned ==
    /\ exc = "none"
    /\ stdout = <<>>
    /\ vad_idx = 0
    /\ vs = 0
    /\ ve = 0
    /\ vad_duration = 0
    /\ covered_duration = 0
    /\ coverage_ratio = <<0, 1>>
    /\ missing_segments = <<>>
    /\ result = FALSE
    /\ filtered_segments = <<>>

\* main(PATH_TO_FILE, COVERAGE_THRESHOLD, MIN_VAD_DURATION, SIGNIFICANCE_FACTOR)
Init ==
    /\ pc = "main"
    /\ COVERAGE_THRESHOLD \in Thresholds
    /\ MIN_VAD_DURATION \in MinDurations
    /\ SIGNIFICANCE_FACTOR \in SignificanceFactors
    /\ silero_timestamps = <<>>
    /\ transcript = <<>>
    /\ all_words = <<>>
    /\ Unassigned

\* find_missing_vad_segments(vad_segments, master_words, coverage_threshold, min_vad_duration)
InitAnalyze ==
    /\ pc = "find_missing_vad_segments"
    /\ COVERAGE_THRESHOLD \in Thresholds
    /\ MIN_VAD_DURATION \in MinDurations
    /\ SIGNIFICANCE_FACTOR = 0
    /\ silero_timestamps \in AnalyzeVadSegments
    /\ transcript = <<>>
    /\ all_words \in AnalyzeWords
    /\ Unassigned

\* build_master_transcript(deepgram_json)
InitMerge ==
    /\ pc = "build_master_transcript"
    /\ COVERAGE_THRESHOLD = 0
    /\ MIN_VAD_DURATION = 0
    /\ SIGNIFICANCE_FACTOR = 0
    /\ silero_timestamps = <<>>
    /\ \E nch \in 1..MaxChannels : \E flat \in MergeWords :
          transcript \in Responses(flat, nch)
    /\ all_words = <<>>
    /\ Unassigned

----------------------------------------------------------------------------
(* Actions. *)

\* main, line 112: silero_vad returns the speech timestamps
SileroVad ==
    /\ pc = "main"
    /\ silero_timestamps' \in MainVadSegments
    /\ pc' = "deepgram_words"
    /\ UNCHANGED <<exc, stdout, params, transcript, all_words, loopLocals,
                   missing_segments, result, filtered_segments>>

\* main, line 113: requests.post returns; deepgram_words returns the response
DeepgramWordsOk ==
    /\ pc = "deepgram_words"
    /\ \E nch \in {1, 2} : \E flat \in MainWordLists :
          transcript' \in Responses(flat, nch)
    /\ pc' = "build_master_transcript"
    /\ UNCHANGED <<exc, stdout, params, silero_timestamps, all_words, loopLocals,
                   missing_segments, result, filtered_segments>>

\* main, line 113: requests.post raises RequestException; the handler prints it,
\* and "return response" then finds response unbound
DeepgramWordsFail ==
    /\ pc = "deepgram_words"
    /\ stdout' = Append(stdout, Line("Request failed", 0, 0))
    /\ exc' = "UnboundLocalError"
    /\ pc' = "raised"
    /\ UNCHANGED <<params, silero_timestamps, transcript, all_words, loopLocals,
                   missing_segments, result, filtered_segments>>

\* main, line 114: build_master_transcript
BuildMasterTranscript ==
    /\ pc = "build_master_transcript"
    /\ IF Len(transcript) < 2
       THEN /\ exc' = "IndexError"
            /\ pc' = "raised"
            /\ UNCHANGED all_words
       ELSE /\ LET rounded == RoundAll(transcript[1] \o transcript[2])
               IN  all_words' = SortByStart(rounded, Len(rounded))
            /\ pc' = "find_missing_vad_segments"
            /\ UNCHANGED exc
    /\ UNCHANGED <<stdout, params, silero_timestamps, transcript, loopLocals,
                   missing_segments, result, filtered_segments>>

\* find_missing_vad_segments, line 80
FmvsBegin ==
    /\ pc = "find_missing_vad_segments"
    /\ missing_segments' = <<>>
    /\ vad_idx' = 1
    /\ pc' = "fmvs_loop"
    /\ UNCHANGED <<exc, stdout, params, silero_timestamps, transcript, all_words,
                   vs, ve, vad_duration, covered_duration, coverage_ratio, result,
                   filtered_segments>>

\* find_missing_vad_segments, lines 82-107: one iteration of the loop
FmvsIter ==
    /\ pc = "fmvs_loop"
    /\ vad_idx <= Len(silero_timestamps)
    /\ LET vad == silero_timestamps[vad_idx]
           s == vad.start
           e == vad.end
           duration == e - s
           covered == CoveredDuration(s, e, all_words, Len(all_words))
           ratio == CoverageRatio(covered, duration)
       IN  /\ vs' = s
           /\ ve' = e
           /\ vad_duration' = duration
           /\ IF SkipVad(duration, MIN_VAD_DURATION)
              THEN /\ vad_idx' = vad_idx + 1
                   /\ UNCHANGED <<pc, exc, covered_duration, coverage_ratio,
                                  missing_segments>>
              ELSE /\ covered_duration' = covered
                   /\ IF duration = 0
                      THEN /\ exc' = "ZeroDivisionError"
                           /\ pc' = "raised"
                           /\ UNCHANGED <<vad_idx, coverage_ratio, missing_segments>>
                      ELSE /\ coverage_ratio' = ratio
                           /\ missing_segments' =
                                IF IsMissing(ratio, COVERAGE_THRESHOLD)
                                THEN Append(missing_segments,
                                            CoverageResult(s, e, duration, covered, ratio))
                                ELSE missing_segments
                           /\ vad_idx' = vad_idx + 1
                           /\ UNCHANGED <<pc, exc>>
    /\ UNCHANGED <<stdout, params, silero_timestamps, transcript, all_words, result,
                   filtered_segments>>

\* find_missing_vad_segments, line 109; main, line 115
FmvsReturn ==
    /\ pc = "fmvs_loop"
    /\ vad_idx > Len(silero_timestamps)
    /\ pc' = "filter"
    /\ UNCHANGED <<exc, stdout, params, silero_timestamps, transcript, all_words,
                   loopLocals, missing_segments, result, filtered_segments>>

\* main, lines 116-125
MainFilter ==
    /\ pc = "filter"
    /\ filtered_segments' =
         FilterSegments(missing_segments, SIGNIFICANCE_FACTOR, Len(missing_segments))
    /\ result' = \E k \in 1..Len(missing_segments) :
                     Significant(missing_segments[k], SIGNIFICANCE_FACTOR)
    /\ pc' = "reassign"
    /\ UNCHANGED <<exc, stdout, params, silero_timestamps, transcript, all_words,
                   loopLocals, missing_segments>>

\* main, line 127
MainReassign ==
    /\ pc = "reassign"
    /\ missing_segments' = filtered_segments
    /\ pc' = "report"
    /\ UNCHANGED <<exc, stdout, params, silero_timestamps, transcript, all_words,
                   loopLocals, result, filtered_segments>>

\* main, lines 129-134
MainReport ==
    /\ pc = "report"
    /\ stdout' =
         IF result
         THEN stdout \o [k \in 1..Len(missing_segments) |->
                            Line("missing transcript", missing_segments[k].vad_start,
                                 missing_segments[k].vad_end)]
         ELSE Append(stdout, Line("no missing transcripts", 0, 0))
    /\ pc' = "returned"
    /\ UNCHANGED <<exc, params, silero_timestamps, transcript, all_words, loopLocals,
                   missing_segments, result, filtered_segments>>

Next ==
    \/ SileroVad
    \/ DeepgramWordsOk
    \/ DeepgramWordsFail
    \/ BuildMasterTranscript
    \/ FmvsBegin
    \/ FmvsIter
    \/ FmvsReturn
    \/ MainFilter
    \/ MainReassign
    \/ MainReport

Spec == Init /\ [][Next]_vars

NextAnalyze == FmvsBegin \/ FmvsIter \/ FmvsReturn

SpecAnalyze == InitAnalyze /\ [][NextAnalyze]_vars

NextMerge == BuildMasterTranscript

SpecMerge == InitMerge /\ [][NextMerge]_vars

----------------------------------------------------------------------------
(* Vocabulary of the properties, defined apart from the operators above. *)

Hi(a, b) == IF a > b THEN a ELSE b
Lo(a, b) == IF a < b THEN a ELSE b
Clip(x) == IF x > 0 THEN x ELSE 0

\* Sum over the index set idx of max(0, min(e, we) - max(s, ws)).
RECURSIVE SumOverlap(_, _, _, _)
SumOverlap(s, e, words, idx) ==
    IF idx = {} THEN 0
    ELSE LET k == CHOOSE x \in idx : TRUE
         IN  Clip(Lo(e, words[k].end) - Hi(s, words[k].start))
                + SumOverlap(s, e, words, idx \ {k})

Covered(v) == SumOverlap(v.start, v.end, all_words, DOMAIN all_words)
Duration(v) == v.end - v.start

\* covered / duration < COVERAGE_THRESHOLD / 100, for a positive duration
BelowThreshold(v) == Covered(v) * 100 < COVERAGE_THRESHOLD * Duration(v)

\* missing_segments holds a CoverageResult for the speech interval v
HasResult(v) ==
    \E j \in DOMAIN missing_segments :
        /\ missing_segments[j].vad_start = v.start
        /\ missing_segments[j].vad_end = v.end

\* the speech intervals the loop has gone through without raising
Done == 1..(vad_idx - 1)

\* the call is in its loop or has returned its list
Running == pc \in {"fmvs_loop", "filter"}

\* the last iteration computed covered_duration and coverage_ratio for [vs, ve)
Evaluated == Running /\ vad_idx > 1 /\ vad_duration >= MIN_VAD_DURATION

NoOverlap(s, e) ==
    \A k \in DOMAIN all_words : ~(Lo(e, all_words[k].end) > Hi(s, all_words[k].start))

PairwiseDisjoint ==
    \A i, j \in DOMAIN all_words :
        i # j => ~(Lo(all_words[i].end, all_words[j].end)
                      > Hi(all_words[i].start, all_words[j].start))

\* pairwise non-overlapping words whose union contains [s, e)
FullyCovered(s, e) ==
    /\ PairwiseDisjoint
    /\ \A t \in s..(e - 1) :
          \E k \in DOMAIN all_words : all_words[k].start <= t /\ t + 1 <= all_words[k].end

----------------------------------------------------------------------------
(* C1: every speech interval at least min_vad_duration long gets a          *)
(* CoverageResult if and only if covered / duration is strictly below the  *)
(* threshold, one result per such interval; a ratio equal to the threshold *)
(* is not flagged.                                                         *)
C1_FlaggedIffBelowThreshold ==
    Running =>
        /\ \A k \in Done :
              LET v == silero_timestamps[k]
              IN  Duration(v) >= MIN_VAD_DURATION => (HasResult(v) <=> BelowThreshold(v))
        /\ Len(missing_segments) =
              Cardinality({k \in Done :
                              /\ Duration(silero_timestamps[k]) >= MIN_VAD_DURATION
                              /\ BelowThreshold(silero_timestamps[k])})

\* the call has returned, some interval's ratio equals the threshold exactly and
\* the interval is not in the list
C1_Witness ==
    /\ pc = "filter"
    /\ \E k \in Done :
          LET v == silero_timestamps[k]
          IN  /\ Duration(v) >= MIN_VAD_DURATION
              /\ Covered(v) > 0
              /\ Covered(v) * 100 = COVERAGE_THRESHOLD * Duration(v)
              /\ ~HasResult(v)

(* C3: a speech interval shorter than min_vad_duration never produces a    *)
(* CoverageResult, whatever the words and the threshold; an interval whose *)
(* duration equals min_vad_duration is not skipped: it is flagged exactly  *)
(* when its ratio is below the threshold.                                  *)
C3_ShortIntervalsSkipped ==
    \A k \in Done :
        LET v == silero_timestamps[k]
        IN  /\ Duration(v) < MIN_VAD_DURATION => ~HasResult(v)
            /\ Duration(v) = MIN_VAD_DURATION => (HasResult(v) <=> BelowThreshold(v))

\* the call has returned; it skipped an interval that no word covers although the
\* threshold is positive, and it flagged an interval exactly min_vad_duration long
C3_Witness ==
    /\ pc = "filter"
    /\ COVERAGE_THRESHOLD > 0
    /\ \E k \in Done :
          /\ Duration(silero_timestamps[k]) < MIN_VAD_DURATION
          /\ Covered(silero_timestamps[k]) = 0
          /\ ~HasResult(silero_timestamps[k])
    /\ \E k \in Done :
          /\ Duration(silero_timestamps[k]) = MIN_VAD_DURATION
          /\ HasResult(silero_timestamps[k])

C5_NoErrorRaised == exc = "none"

(* C7 as stated: every speech interval that no word overlaps is flagged    *)
(* whenever the threshold is positive.                                     *)
C7_Original ==
    pc = "filter" =>
        \A k \in Done :
            LET v == silero_timestamps[k]
            IN  (NoOverlap(v.start, v.end) /\ COVERAGE_THRESHOLD > 0) => HasResult(v)

(* C7 as amended: a speech interval that no word overlaps and that is at   *)
(* least min_vad_duration long has covered_duration 0 and coverage_ratio   *)
(* 0.0, and is flagged whenever the threshold is positive.                 *)
C7_UncoveredFlagged ==
    /\ (Evaluated /\ NoOverlap(vs, ve)) =>
          /\ covered_duration = 0
          /\ coverage_ratio[1] = 0
          /\ coverage_ratio[2] = ve - vs
          /\ coverage_ratio[2] > 0
          /\ COVERAGE_THRESHOLD > 0 =>
                /\ missing_segments # <<>>
                /\ missing_segments[Len(missing_segments)] =
                      [vad_start |-> vs, vad_end |-> ve, vad_duration |-> ve - vs,
                       covered_duration |-> 0, coverage_ratio |-> <<0, ve - vs>>]
    /\ \A k \in Done :
          LET v == silero_timestamps[k]
          IN  (/\ NoOverlap(v.start, v.end)
               /\ Duration(v) >= MIN_VAD_DURATION
               /\ COVERAGE_THRESHOLD > 0) => HasResult(v)

\* an evaluated interval that none of the words present overlaps has been flagged
C7_Witness ==
    /\ Evaluated
    /\ all_words # <<>>
    /\ NoOverlap(vs, ve)
    /\ COVERAGE_THRESHOLD > 0
    /\ HasResult([start |-> vs, end |-> ve])

FlaggedUnder(v, t) ==
    /\ ~SkipVad(v.end - v.start, MIN_VAD_DURATION)
    /\ IsMissing(CoverageRatio(CoveredDuration(v.start, v.end, all_words, Len(all_words)),
                               v.end - v.start), t)

FlaggedSet(t) == {k \in DOMAIN silero_timestamps : FlaggedUnder(silero_timestamps[k], t)}

(* C9: with the speech intervals, the words and min_vad_duration fixed,    *)
(* every interval flagged under the threshold of the call is flagged under *)
(* every larger threshold, so the flagged count never decreases when the   *)
(* threshold increases (the calls range over every threshold, so this      *)
(* covers every pair t1 <= t2).                                            *)
C9_MonotoneInThreshold ==
    pc = "filter" =>
        /\ Len(missing_segments) = Cardinality(FlaggedSet(COVERAGE_THRESHOLD))
        /\ \A k \in DOMAIN silero_timestamps :
              HasResult(silero_timestamps[k])
                  <=> FlaggedUnder(silero_timestamps[k], COVERAGE_THRESHOLD)
        /\ \A t \in Thresholds :
              t >= COVERAGE_THRESHOLD =>
                  /\ FlaggedSet(COVERAGE_THRESHOLD) \subseteq FlaggedSet(t)
                  /\ Len(missing_segments) <= Cardinality(FlaggedSet(t))

\* the call returned fewer results than a larger threshold would have given it
C9_Witness ==
    /\ pc = "filter"
    /\ \E t \in Thresholds :
          /\ t > COVERAGE_THRESHOLD
          /\ Cardinality(FlaggedSet(t)) > Len(missing_segments)

----------------------------------------------------------------------------
(* The significance filter and the report of main. *)

GapDuration(segment) == segment.vad_end - segment.vad_start

\* the places of missing_segments whose interval is longer than the factor
KeptPlaces == {k \in DOMAIN missing_segments :
                  GapDuration(missing_segments[k]) > SIGNIFICANCE_FACTOR}

Reported(kind) == \E k \in DOMAIN stdout : stdout[k].kind = kind

C10_RequestFailureSurfaced ==
    Reported("Request failed") => (pc = "raised" /\ exc = "RequestException")

----------------------------------------------------------------------------
(* The merge of the channels. *)

\* the words of the channels, each named by <<channel (0-based), position>>
Tags(channels) ==
    UNION {{<<c - 1, k>> : k \in DOMAIN channels[c]} : c \in DOMAIN channels}

RawOf(tag) == transcript[tag[1] + 1][tag[2]]

\* r tenths is x sixteenths rounded to one decimal place, ties to the even digit
IsRounded(r, x) ==
    /\ 16 * r - 10 * x \in -8..8
    /\ (16 * r - 10 * x \in {-8, 8}) => r % 2 = 0

\* a comes before b in channel_zero_words + channel_one_words + ...
ConcatBefore(a, b) == a[1] < b[1] \/ (a[1] = b[1] /\ a[2] < b[2])

MergeReturned == pc = "find_missing_vad_segments" /\ Len(transcript) >= 2

\* all_words holds each word tagged in tags once, with rounded timestamps
PermutationOf(tags) ==
    /\ Len(all_words) = Cardinality(tags)
    /\ {all_words[k].word : k \in DOMAIN all_words} = tags
    /\ \A k \in DOMAIN all_words :
          /\ IsRounded(all_words[k].start, RawOf(all_words[k].word).start)
          /\ IsRounded(all_words[k].end, RawOf(all_words[k].word).end)

SortedStable ==
    \A i, j \in DOMAIN all_words :
        i < j =>
            /\ all_words[i].start <= all_words[j].start
            /\ all_words[i].start = all_words[j].start
                  => ConcatBefore(all_words[i].word, all_words[j].word)

(* C6 as stated: given two or more channels, the result is a permutation   *)
(* of the words of all channels, sorted by rounded start, ties in          *)
(* concatenation order.                                                    *)
C6_Original ==
    MergeReturned => (PermutationOf(Tags(transcript)) /\ SortedStable)

(* C6 as amended: given two or more channels, the result is a permutation  *)
(* of the words of channel 0 and channel 1 (the words of further channels  *)
(* are left out), sorted ascending by start rounded to one decimal place,  *)
(* words of equal rounded start in concatenation order.                    *)
C6_MergeFirstTwoChannels ==
    MergeReturned => (PermutationOf(Tags(SubSeq(transcript, 1, 2))) /\ SortedStable)

\* a word of channel 0 and a word of channel 1 that starts earlier round to the
\* same start, the word of channel 0 comes first in the result, and its end was
\* rounded from exactly halfway between two tenths
C6_Witness ==
    /\ MergeReturned
    /\ \E i, j \in DOMAIN all_words :
          /\ i < j
          /\ all_words[i].start = all_words[j].start
          /\ all_words[i].word[1] = 0
          /\ all_words[j].word[1] = 1
          /\ RawOf(all_words[j].word).start < RawOf(all_words[i].word).start
          /\ (10 * RawOf(all_words[i].word).end) % 16 = 8

====
